---------------------------- MODULE Spec2Model ----------------------------
(***************************************************************************)
(* docs/source/conf.py of bettercpp: the Sphinx configuration of the book  *)
(* "Better C++".  The file is a straight-line Python module: sixteen       *)
(* assignments of literals to module-level names.  The model is the load   *)
(* of that module: a namespace, a program counter over the statements,     *)
(* and the state outside the namespace (imported modules, the process      *)
(* environment) that a module-level statement could touch.                 *)
(***************************************************************************)
EXTENDS Integers, Sequences, FiniteSets, TLC

VARIABLES
    status,     \* "idle" | "loading" | "error"
    pc,         \* index of the next statement of Program to execute
    ns,         \* the module namespace: name -> value (Unbound if not bound)
    writes,     \* name -> how many statements of this load bound or mutated it
    modules,    \* modules imported so far (sys.modules), outside the namespace
    environ,    \* the process environment the build runs in
    results     \* per completed load: the settings it produced and its environment

vars == <<status, pc, ns, writes, modules, environ, results>>

(* Bounds of the model. *)
MaxLoads == 2      \* how many times the file is loaded
MaxEnv == 2        \* the environments a build may run in are 0..MaxEnv

--------------------------------------------------------------------------
(* Python values. *)

Unbound == [t |-> "unbound"]
None == [t |-> "none"]
Str(s) == [t |-> "str", s |-> s]
List(items) == [t |-> "list", items |-> items]
Tuple(elts) == [t |-> "tuple", elts |-> elts]
Dict(entries) == [t |-> "dict", entries |-> entries]   \* <<key, value>> pairs

IsBound(v) == v.t # "unbound"

DictKeys(d) == {d.entries[i][1] : i \in 1..Len(d.entries)}

(* d[key], the last entry winning as in a dict display; None if absent. *)
DictGet(d, key) ==
    LET hits == {i \in 1..Len(d.entries) : d.entries[i][1] = key}
    IN  IF hits = {} THEN None
        ELSE d.entries[CHOOSE i \in hits : \A j \in hits : j <= i][2]

ListHas(l, s) == \E i \in 1..Len(l.items) : l.items[i] = Str(s)

NoDuplicates(l) ==
    \A i, j \in 1..Len(l.items) : i # j => l.items[i] # l.items[j]

(* str.startswith and str.endswith on the characters of the strings. *)
StartsWith(s, prefix) ==
    /\ Len(prefix) <= Len(s)
    /\ SubSeq(s, 1, Len(prefix)) = prefix

EndsWith(s, suffix) ==
    /\ Len(suffix) <= Len(s)
    /\ SubSeq(s, Len(s) - Len(suffix) + 1, Len(s)) = suffix

--------------------------------------------------------------------------
(* The values conf.py assigns, under the names it assigns them to. *)

project == Str("Better C++")
copyright == Str("2024, Nhut Nguyen")
author == Str("Nhut Nguyen")

release == Str("0.1")
version == Str("0.1.0")

extensions_without_intersphinx ==
    List(<< Str("sphinx.ext.duration"),
            Str("sphinx.ext.doctest"),
            Str("sphinx.ext.autodoc"),
            Str("sphinx.ext.autosummary") >>)

extensions ==
    List(<< Str("sphinx.ext.duration"),
            Str("sphinx.ext.doctest"),
            Str("sphinx.ext.autodoc"),
            Str("sphinx.ext.autosummary"),
            Str("sphinx.ext.intersphinx") >>)

intersphinx_mapping ==
    Dict(<< <<"python", Tuple(<<Str("https://docs.python.org/3/"), None>>)>>,
            <<"sphinx", Tuple(<<Str("https://www.sphinx-doc.org/en/master/"), None>>)>> >>)

intersphinx_disabled_domains == List(<< Str("std") >>)

templates_path == List(<< Str("_templates") >>)

master_doc == Str("index")

html_theme == Str("furo")
html_title == Str("Better C++")
html_theme_options == Dict(<< >>)

preamble ==
    Str("\n                    \\usepackage{charter}\n                    \\usepackage[defaultsans]{lato}\n                    \\usepackage{inconsolata}\n                    \\addto\\captionsenglish{\\renewcommand{\\contentsname}{Contents}}\n                ")

latex_elements_pointsize_12 ==
    Dict(<< <<"papersize", Str("letterpaper")>>,
            <<"sphinxsetup", Str("hmargin={1.2in,1.2in}, vmargin={1.2in,1.2in}")>>,
            <<"pointsize", Str("12")>>,
            <<"preamble", preamble>> >>)

latex_elements ==
    Dict(<< <<"papersize", Str("letterpaper")>>,
            <<"sphinxsetup", Str("hmargin={1.2in,1.2in}, vmargin={1.2in,1.2in}")>>,
            <<"pointsize", Str("12pt")>>,
            <<"preamble", preamble>> >>)

latex_show_urls == Str("footnote")

latex_docclass == Dict(<< <<"book", Str("book")>> >>)

--------------------------------------------------------------------------
(* Statements and expressions of a module body. *)

Lit(v) == [k |-> "lit", val |-> v]
Name(id) == [k |-> "name", id |-> id]
Environ == [k |-> "environ"]                      \* os.environ[...]

Assign(target, expr) == [op |-> "assign", target |-> target, expr |-> expr]
ListAppend(target, expr) == [op |-> "append", target |-> target, expr |-> expr]
Import(module) == [op |-> "import", module |-> module]

(* The statements of conf.py, first to last. *)
Assignments ==
    << Assign("project", Lit(project)),
       Assign("copyright", Lit(copyright)),
       Assign("author", Lit(author)),
       Assign("release", Lit(release)),
       Assign("version", Lit(version)),
       Assign("extensions", Lit(extensions)),
       Assign("intersphinx_mapping", Lit(intersphinx_mapping)),
       Assign("intersphinx_disabled_domains", Lit(intersphinx_disabled_domains)),
       Assign("templates_path", Lit(templates_path)),
       Assign("master_doc", Lit(master_doc)),
       Assign("html_theme", Lit(html_theme)),
       Assign("html_title", Lit(html_title)),
       Assign("html_theme_options", Lit(html_theme_options)),
       Assign("latex_elements", Lit(latex_elements)),
       Assign("latex_show_urls", Lit(latex_show_urls)),
       Assign("latex_docclass", Lit(latex_docclass)) >>

(* The names conf.py binds. *)
DeclaredNames ==
    { "project", "copyright", "author", "release", "version", "extensions",
      "intersphinx_mapping", "intersphinx_disabled_domains", "templates_path",
      "master_doc", "html_theme", "html_title", "html_theme_options",
      "latex_elements", "latex_show_urls", "latex_docclass" }

(* The settings conf.py keeps commented out: names it does not bind. *)
CommentedOutNames == { "html_logo", "latex_documents", "epub_show_urls" }

(* Modules a module-level import could bring in; conf.py imports none. *)
Importable == { "os" }

Names == DeclaredNames \cup CommentedOutNames \cup Importable

(* conf.py with release taken from the build's environment. *)
ProgramReadsEnviron ==
    << Import("os") >> \o [Assignments EXCEPT ![4] = Assign("release", Environ)]

(* conf.py with latex_documents (lines 69-72) live, ahead of master_doc. *)
ProgramReadsUnbound ==
    << Assign("latex_documents", Name("master_doc")) >> \o Assignments

(* conf.py opening with "import os", as Sphinx's own template does. *)
ProgramImports == << Import("os") >> \o Assignments

(* The module body the interpreter executes: the comments contribute nothing. *)
Program == Assignments

--------------------------------------------------------------------------
(* Python's execution of one module-level statement. *)

(* The value of an expression, or a failure (NameError). *)
Eval(e, nsv, env) ==
    CASE e.k = "lit" -> [ok |-> TRUE, val |-> e.val]
      [] e.k = "name" ->
            IF IsBound(nsv[e.id]) THEN [ok |-> TRUE, val |-> nsv[e.id]]
            ELSE [ok |-> FALSE, val |-> None]
      [] e.k = "environ" ->
            IF IsBound(nsv["os"]) THEN [ok |-> TRUE, val |-> Str(ToString(env))]
            ELSE [ok |-> FALSE, val |-> None]

(* The state after a statement: the namespace, the write counts, the       *)
(* imported modules, and whether the statement raised.                     *)
Exec(stmt, nsv, wr, mods, env) ==
    CASE stmt.op = "assign" ->
            LET r == Eval(stmt.expr, nsv, env)
            IN  IF r.ok
                THEN [ns |-> [nsv EXCEPT ![stmt.target] = r.val],
                      writes |-> [wr EXCEPT ![stmt.target] = @ + 1],
                      modules |-> mods, raised |-> FALSE]
                ELSE [ns |-> nsv, writes |-> wr, modules |-> mods, raised |-> TRUE]
      [] stmt.op = "append" ->
            LET r == Eval(stmt.expr, nsv, env)
            IN  IF r.ok /\ nsv[stmt.target].t = "list"
                THEN [ns |-> [nsv EXCEPT ![stmt.target] =
                                 List(nsv[stmt.target].items \o <<r.val>>)],
                      writes |-> [wr EXCEPT ![stmt.target] = @ + 1],
                      modules |-> mods, raised |-> FALSE]
                ELSE [ns |-> nsv, writes |-> wr, modules |-> mods, raised |-> TRUE]
      [] stmt.op = "import" ->
            [ns |-> [nsv EXCEPT ![stmt.module] = [t |-> "module", name |-> stmt.module]],
             writes |-> [wr EXCEPT ![stmt.module] = @ + 1],
             modules |-> mods \cup {stmt.module}, raised |-> FALSE]

--------------------------------------------------------------------------
(* The load of conf.py by a documentation build. *)

EmptyNamespace == [n \in Names |-> Unbound]
NoWrites == [n \in Names |-> 0]

Init ==
    /\ status = "idle"
    /\ pc = 1
    /\ ns = EmptyNamespace
    /\ writes = NoWrites
    /\ modules = {}
    /\ environ \in 0..MaxEnv
    /\ results = << >>

(* A build starts executing the file in a fresh namespace. *)
StartLoad ==
    /\ status = "idle"
    /\ Len(results) < MaxLoads
    /\ status' = "loading"
    /\ pc' = 1
    /\ ns' = EmptyNamespace
    /\ writes' = NoWrites
    /\ UNCHANGED <<modules, environ, results>>

(* The interpreter executes the next statement; a raise ends the load. *)
ExecStmt ==
    /\ status = "loading"
    /\ pc <= Len(Program)
    /\ LET r == Exec(Program[pc], ns, writes, modules, environ)
       IN  /\ ns' = r.ns
           /\ writes' = r.writes
           /\ modules' = r.modules
           /\ status' = IF r.raised THEN "error" ELSE "loading"
           /\ pc' = IF r.raised THEN pc ELSE pc + 1
    /\ UNCHANGED <<environ, results>>

(* The last statement is done: the build reads the settings. *)
FinishLoad ==
    /\ status = "loading"
    /\ pc > Len(Program)
    /\ status' = "idle"
    /\ results' = results \o << [ns |-> ns, env |-> environ] >>
    /\ UNCHANGED <<pc, ns, writes, modules, environ>>

(* Between builds the environment may be another one. *)
EnvChange ==
    /\ status = "idle"
    /\ \E e \in 0..MaxEnv : e # environ /\ environ' = e
    /\ UNCHANGED <<status, pc, ns, writes, modules, results>>

Next == StartLoad \/ ExecStmt \/ FinishLoad \/ EnvChange

Spec == Init /\ [][Next]_vars

(* The interpreter does not stop in the middle of a module body. *)
FairSpec == Spec /\ WF_vars(ExecStmt) /\ WF_vars(FinishLoad)

Loaded == status = "loading" /\ pc > Len(Program)

--------------------------------------------------------------------------
(* Properties of the load. *)

(* C2: every setting has a single static value: within a load no name is   *)
(* bound or mutated more than once, at the end of the load every declared  *)
(* name has been bound exactly once, and any two completed loads, whatever *)
(* environments they ran in, produced identical settings.                  *)
SingleStaticValue ==
    /\ \A n \in Names : writes[n] <= 1
    /\ Loaded => \A n \in DeclaredNames : writes[n] = 1 /\ IsBound(ns[n])
    /\ \A i, j \in 1..Len(results) : results[i].ns = results[j].ns

(* Two loads have completed, in different environments. *)
TwoLoadsInDifferentEnvironments ==
    \E i, j \in 1..Len(results) : results[i].env # results[j].env

(* C3: no error originates from conf.py: no load ever enters the error     *)
(* state, and every load that starts runs to completion.                   *)
LoadRunsToCompletion ==
    /\ [](status # "error")
    /\ (status = "loading") ~> (status = "idle")

(* Every load the model allows has run to completion with all names bound. *)
AllLoadsCompleted ==
    /\ status = "idle"
    /\ Len(results) >= 2
    /\ \A i \in 1..Len(results) : \A n \in DeclaredNames : IsBound(results[i].ns[n])

(* C4: a load has no effect but binding the settings: from its start to    *)
(* its end no step changes the imported modules or the environment, and    *)
(* no name other than the declared ones changes in the namespace.          *)
LoadOnlyBindsSettings ==
    [][(status = "loading" \/ status' = "loading") =>
          /\ modules' = modules
          /\ environ' = environ
          /\ \A n \in Names \ DeclaredNames : ns'[n] = ns[n]]_vars

(* The whole file has been executed and nothing but the settings is bound. *)
LoadedWithOnlySettingsBound ==
    /\ Loaded
    /\ modules = {}
    /\ \A n \in DeclaredNames : IsBound(ns[n])
    /\ \A n \in Names \ DeclaredNames : ~IsBound(ns[n])

(* The document types Sphinx looks up in latex_docclass. *)
LatexDocumentTypes == { "howto", "manual" }

(* C5: every key of latex_docclass is a document type the tool looks up    *)
(* when it chooses the LaTeX document class ('howto' or 'manual').         *)
DocclassKeysAreLookedUp ==
    IsBound(ns["latex_docclass"]) =>
        DictKeys(ns["latex_docclass"]) \subseteq LatexDocumentTypes

(* The domains the comments of latex_elements document. *)
PaperSizes == { Str("letterpaper"), Str("a4paper") }
PointSizes == { Str("10pt"), Str("11pt"), Str("12pt") }
(* The values Sphinx accepts for latex_show_urls. *)
ShowUrlsValues == { Str("no"), Str("footnote"), Str("inline") }

(* C6: the enumerated LaTeX settings take values of their documented       *)
(* domains: papersize, pointsize and latex_show_urls.                      *)
LatexValuesInDomain ==
    /\ IsBound(ns["latex_elements"]) =>
          /\ DictGet(ns["latex_elements"], "papersize") \in PaperSizes
          /\ DictGet(ns["latex_elements"], "pointsize") \in PointSizes
    /\ IsBound(ns["latex_show_urls"]) => ns["latex_show_urls"] \in ShowUrlsValues

(* latex_elements and latex_show_urls are both bound. *)
LatexSettingsBound ==
    /\ status = "loading"
    /\ IsBound(ns["latex_elements"])
    /\ IsBound(ns["latex_show_urls"])

(* C7: the intersphinx settings are backed by an enabled extension: once   *)
(* intersphinx_mapping or intersphinx_disabled_domains is bound,           *)
(* extensions is bound and holds 'sphinx.ext.intersphinx'; and extensions  *)
(* never holds an entry twice.                                             *)
ExtensionSettingsBacked ==
    /\ (IsBound(ns["intersphinx_mapping"]) \/ IsBound(ns["intersphinx_disabled_domains"]))
          => /\ IsBound(ns["extensions"])
             /\ ListHas(ns["extensions"], "sphinx.ext.intersphinx")
    /\ IsBound(ns["extensions"]) => NoDuplicates(ns["extensions"])

(* Both intersphinx settings are bound. *)
IntersphinxSettingsBound ==
    /\ IsBound(ns["intersphinx_mapping"])
    /\ IsBound(ns["intersphinx_disabled_domains"])
    /\ Len(ns["extensions"].items) > 1

(* C8: the project metadata is mutually consistent once the file is        *)
(* loaded: version is a prefix of release, html_title equals project, and  *)
(* copyright ends with the author name.                                    *)
MetadataConsistent ==
    Loaded =>
        /\ StartsWith(ns["release"].s, ns["version"].s)
        /\ ns["html_title"] = ns["project"]
        /\ EndsWith(ns["copyright"].s, ns["author"].s)

(* The parts of C8 the file does satisfy. *)
TitleAndCopyrightConsistent ==
    Loaded =>
        /\ ns["html_title"] = ns["project"]
        /\ EndsWith(ns["copyright"].s, ns["author"].s)

===========================================================================
